---------------------------- MODULE Spec2Model ----------------------------
(***************************************************************************)
(* Inventory & Sales Manager (src/app.py): the three worksheets            *)
(* (Inventory, Sales, Purchases), the helpers that read and write them     *)
(* (get_df, append_row_dynamic, find_and_delete_row) and the four button   *)
(* handlers (Record Sale, Delete Selected Sale, Record Purchase, Delete    *)
(* Selected Purchase).                                                     *)
(*                                                                         *)
(* Representation.  A worksheet is [hdr, rows]: the header row and the     *)
(* data rows, each data row as wide as the header.  A cell is a record     *)
(* [k, s, n]: an empty cell, a text or a number.  Money is counted in      *)
(* hundredths (20.00 is 2000), so that round(x, 2) is integer arithmetic.  *)
(* Item names and dates are texts that do not look like numbers, so the    *)
(* store's USER_ENTERED interpretation keeps them as typed.                *)
(***************************************************************************)
EXTENDS Integers, Sequences, FiniteSets, TLC

VARIABLES
    inv,        \* the Inventory worksheet
    sales,      \* the Sales worksheet
    purchases,  \* the Purchases worksheet
    msg,        \* what the last action showed the user
    last,       \* history: the last action, its item, its quantity, the item's
                \* Stock before it and whether it wrote to Inventory
    sess,       \* the sessions' script runs (two-session specification)
    log,        \* history: the Stock writes of the sessions, in order
    ar,         \* append_row_dynamic on drawn inputs: [ws, fields, done]
    fd          \* find_and_delete_row on drawn inputs: [ws, match, apiFails, out, done]

vars == <<inv, sales, purchases, msg, last, sess, log, ar, fd>>

-----------------------------------------------------------------------------
(* Bounds *)

MaxTx == 2          \* data rows of Sales and Purchases together
MaxInvRows == 2     \* data rows of Inventory
MaxStock == 3       \* largest Stock a purchase may reach
MaxHdr == 3         \* headers of a sheet append_row_dynamic is tried on
MaxFields == 2      \* fields of a dictionary append_row_dynamic is tried on
MaxFindRows == 2    \* data rows of a sheet find_and_delete_row is tried on
MaxRaceOps == 2     \* record actions started in the two-session specification

Items == {"Pen", "Notebook"}
Qtys == {1, 2}
BuyPrices == {2000}
SellPrices == {3000}
Today == "2024-01-05"

-----------------------------------------------------------------------------
(* Cells *)

Blank == [k |-> "blank", s |-> "", n |-> 0]
Str(s) == [k |-> "str", s |-> s, n |-> 0]
Num(n) == [k |-> "num", s |-> "", n |-> n]
\* history only: the item had no Inventory row
Absent == [k |-> "absent", s |-> "", n |-> 0]

-----------------------------------------------------------------------------
(* Python's str.strip, str.lower and str.title on the strings of the model.
   Every string of the model that has surrounding white space, an upper-case
   letter or a lower-case word start is listed; the others are fixed points. *)

Strip(s) ==
    CASE s = "item name " -> "item name"
      [] s = " STOCK" -> "STOCK"
      [] s = " Date" -> "Date"
      [] s = "date " -> "date"
      [] s = " Pen" -> "Pen"
      [] s = "Pen " -> "Pen"
      [] s = " " -> ""
      [] OTHER -> s

Lower(s) ==
    CASE s \in {"Item Name", "ITEM NAME", "Item name"} -> "item name"
      [] s = "Item" -> "item"
      [] s = "Buy Price" -> "buy price"
      [] s = "Sell Price" -> "sell price"
      [] s \in {"Stock", "STOCK"} -> "stock"
      [] s \in {"Date", "DATE"} -> "date"
      [] s = "Units Sold" -> "units sold"
      [] s = "Selling Price" -> "selling price"
      [] s = "Units Bought" -> "units bought"
      [] s = "Buying Price" -> "buying price"
      [] s = "Total" -> "total"
      [] s = "Pen" -> "pen"
      [] OTHER -> s

Title(s) ==
    CASE s \in {"item name", "ITEM NAME", "Item name"} -> "Item Name"
      [] s = "item" -> "Item"
      [] s = "buy price" -> "Buy Price"
      [] s = "sell price" -> "Sell Price"
      [] s \in {"stock", "STOCK"} -> "Stock"
      [] s \in {"date", "DATE"} -> "Date"
      [] s = "units sold" -> "Units Sold"
      [] s = "selling price" -> "Selling Price"
      [] s = "units bought" -> "Units Bought"
      [] s = "buying price" -> "Buying Price"
      [] s = "total" -> "Total"
      [] s = "pen" -> "Pen"
      [] OTHER -> s

\* str(cell).strip()
StrOf(c) ==
    CASE c.k = "num" -> ToString(c.n)
      [] c.k = "str" -> Strip(c.s)
      [] OTHER -> ""

\* float(round(buy_price * 1.2, 2)), in hundredths: 12 * b is even, so b * 1.2
\* is never half-way between two hundredths
SellOf(b) == (12 * b + 5) \div 10

-----------------------------------------------------------------------------
(* Sequences *)

\* the first index in 1..n that satisfies P, 0 when none does
FirstIdx(n, P(_)) ==
    LET S == {i \in 1..n : P(i)}
    IN  IF S = {} THEN 0 ELSE CHOOSE i \in S : \A j \in S : i <= j

\* the last index in 1..n that satisfies P, 0 when none does
LastIdx(n, P(_)) ==
    LET S == {i \in 1..n : P(i)}
    IN  IF S = {} THEN 0 ELSE CHOOSE i \in S : \A j \in S : j <= i

RemoveAt(s, i) == [j \in 1..(Len(s) - 1) |-> IF j < i THEN s[j] ELSE s[j + 1]]

-----------------------------------------------------------------------------
(* The store (gspread worksheet calls) *)

\* ws.append_row(values): the values fill the first columns of a new last row
append_row(ws, values) ==
    [ws EXCEPT !.rows = Append(@,
        [i \in 1..Len(ws.hdr) |-> IF i <= Len(values) THEN values[i] ELSE Blank])]

\* ws.update_cell(row, col, value); row 1 is the header row
update_cell(ws, row, col, value) ==
    [ws EXCEPT !.rows[row - 1][col] = value]

\* ws.delete_rows(row)
delete_rows(ws, row) ==
    [ws EXCEPT !.rows = RemoveAt(@, row - 1)]

-----------------------------------------------------------------------------
(* Helper functions *)

\* get_df: the records as a frame; a sheet with no data row gives an empty
\* frame without columns, any other has its headers stripped and title-cased
get_df(ws) ==
    IF ws.rows = <<>>
    THEN [cols |-> <<>>, rows |-> <<>>]
    ELSE [cols |-> [i \in 1..Len(ws.hdr) |-> Title(Strip(ws.hdr[i]))],
          rows |-> ws.rows]

\* "c in df.columns" and df.columns.get_loc(c) + 1 (0: no such column)
ColLoc(df, c) == FirstIdx(Len(df.cols), LAMBDA i : df.cols[i] = c)
HasCol(df, c) == ColLoc(df, c) # 0

\* row.get(c, "") on row r of the frame
RowGet(df, r, c) ==
    LET loc == ColLoc(df, c) IN IF loc # 0 THEN df.rows[r][loc] ELSE Blank

\* a row of the dictionary's values in insertion order, whatever the headers
BuildRowByFieldOrder(ws, data_dict) ==
    [i \in 1..Len(data_dict) |-> data_dict[i][2]]

\* the row append_row_dynamic builds; data_dict is the sequence of its
\* <<key, value>> pairs in insertion order
BuildRow(ws, data_dict) ==
    LET headers == [i \in 1..Len(ws.hdr) |-> Strip(ws.hdr[i])]
        matched(hdr) == FirstIdx(Len(data_dict),
                            LAMBDA j : Lower(Strip(data_dict[j][1])) = Lower(hdr))
        row == [i \in 1..Len(headers) |->
                    LET m == matched(headers[i])
                    IN  IF m = 0 THEN Blank ELSE data_dict[m][2]]
    IN  SubSeq(row, 1, Len(headers))

\* append_row_dynamic when the store accepts the row
append_row_dynamic(ws, data_dict) == append_row(ws, BuildRow(ws, data_dict))

\* find_and_delete_row: [ok, err, ws]; apiFails: ws.delete_rows raises
find_and_delete_row(ws, match_dict, apiFails) ==
    LET headers == [i \in 1..Len(ws.hdr) |-> Title(Strip(ws.hdr[i]))]
        df == get_df(ws)
        \* the header a key is normalised to (0: none)
        hdrOf == [j \in 1..Len(match_dict) |->
                    FirstIdx(Len(headers),
                        LAMBDA i : Lower(Strip(match_dict[j][1])) = Lower(headers[i]))]
        keys == {headers[hdrOf[j]] : j \in {x \in 1..Len(match_dict) : hdrOf[x] # 0}}
        \* match[h]: a later key of the same header overwrites an earlier one
        match == [h \in keys |->
                    match_dict[LastIdx(Len(match_dict),
                        LAMBDA j : hdrOf[j] # 0 /\ headers[hdrOf[j]] = h)][2]]
        ok(r) == \A h \in keys : StrOf(RowGet(df, r, h)) = StrOf(match[h])
        idx == FirstIdx(Len(df.rows), ok)
    IN  IF df.rows = <<>> THEN [ok |-> FALSE, err |-> "Sheet is empty.", ws |-> ws]
        ELSE IF idx = 0 THEN [ok |-> FALSE, err |-> "No matching row found.", ws |-> ws]
        ELSE IF apiFails THEN [ok |-> FALSE, err |-> "API error when deleting row", ws |-> ws]
        ELSE [ok |-> TRUE, err |-> "", ws |-> delete_rows(ws, idx + 1)]

-----------------------------------------------------------------------------
(* Record Sale *)

\* item_col: "Item Name" when the frame has it, else the first column
ItemCol(df) == IF HasCol(df, "Item Name") THEN "Item Name" ELSE df.cols[1]

\* the 1-based frame row of the first record whose column c holds v (0: none)
RowOf(df, c, v) ==
    LET loc == ColLoc(df, c)
    IN  FirstIdx(Len(df.rows), LAMBDA r : df.rows[r][loc] = v)

\* the sale's stock without the floor at 0
SaleStockUnclamped(cur, qty) == cur - qty

\* new_stock = max(0, cur_stock - int(qty))
SaleStock(cur, qty) == IF cur - qty > 0 THEN cur - qty ELSE 0

SaleDict(item, qty, price) ==
    << <<"Date", Str(Today)>>, <<"Item Name", item>>,
       <<"Units Sold", Num(qty)>>, <<"Selling Price", Num(price)>> >>

\* the Inventory sheet after the handler's stock update: nothing is written
\* when the frame has no Stock column, when int(Stock) raises (not a number)
\* or when update_cell raises (failUpdate); each is passed over silently
SaleInventory(ws, df, item, qty, failUpdate) ==
    LET r == RowOf(df, ItemCol(df), item)
        cur == df.rows[r][ColLoc(df, "Stock")]
    IN  IF ~HasCol(df, "Stock") THEN ws
        ELSE IF cur.k # "num" \/ failUpdate THEN ws
        ELSE update_cell(ws, r + 1, ColLoc(df, "Stock"), Num(SaleStock(cur.n, qty)))

\* the store calls of a Record Sale click that may raise, in call order
SaleFaults == {"none", "append_row", "update_cell"}

\* whether the handler gets as far as calling update_cell on the Stock cell
SaleUpdates(df, item) ==
    /\ HasCol(df, "Stock")
    /\ df.rows[RowOf(df, ItemCol(df), item)][ColLoc(df, "Stock")].k = "num"

\* the sheet column headed by one of `names` (0: none), as a reader of the
\* sheet sees it: headers compared stripped and title-cased
Col(ws, names) == FirstIdx(Len(ws.hdr), LAMBDA i : Title(Strip(ws.hdr[i])) \in names)

\* the Stock cell of the first row of `item` in an Inventory sheet, Absent
\* without such a row
StockIn(ws, item) ==
    LET ic == Col(ws, {"Item Name", "Item"})
        sc == Col(ws, {"Stock"})
        r == FirstIdx(Len(ws.rows), LAMBDA i : ws.rows[i][ic] = item)
    IN  IF r = 0 THEN Absent ELSE ws.rows[r][sc]

StockNow(item) == StockIn(inv, item)

NoLast == [op |-> "none", item |-> Blank, qty |-> 0, pre |-> Absent, wrote |-> FALSE]

\* one click on "Record Sale": the script run reads Inventory, appends the
\* Sales row and writes the Stock cell
RecordSale(item, qty, price, fault) ==
    \E df \in {get_df(inv)} :
    /\ df.rows # <<>>
    /\ \E r \in 1..Len(df.rows) : df.rows[r][ColLoc(df, ItemCol(df))] = item
    /\ Len(sales.rows) + Len(purchases.rows) < MaxTx
    /\ fault = "update_cell" => SaleUpdates(df, item)
    /\ IF fault = "append_row"
       THEN /\ msg' = "error: Failed to append row to sheet."
            /\ last' = NoLast
            /\ UNCHANGED <<inv, sales>>
       ELSE /\ sales' = append_row_dynamic(sales, SaleDict(item, qty, price))
            /\ inv' = SaleInventory(inv, df, item, qty, fault = "update_cell")
            /\ msg' = "success: Sale recorded and inventory updated"
            /\ last' = [op |-> "sale", item |-> item, qty |-> qty,
                        pre |-> StockNow(item),
                        wrote |-> SaleUpdates(df, item) /\ fault = "none"]
    /\ UNCHANGED <<purchases, sess, log, ar, fd>>

\* the match dictionary a delete handler builds from the selected frame row
SaleMatch(df, idx) ==
    << <<"Date", RowGet(df, idx, "Date")>>,
       <<"Item Name", RowGet(df, idx, "Item Name")>>,
       <<"Units Sold", RowGet(df, idx, "Units Sold")>> >>

\* history of a delete: it removed the transaction the previous click recorded
Undoes(op, ws, idx, res) ==
    last.op = op /\ idx = Len(ws.rows) /\ res.ok

\* one click on "Delete Selected Sale" with the idx-th sale selected
DeleteSale(idx, apiFails) ==
    \E df \in {get_df(sales)} :
    /\ df.rows # <<>>
    /\ idx \in 1..Len(df.rows)
    /\ \E res \in {find_and_delete_row(sales, SaleMatch(df, idx), apiFails)} :
        /\ sales' = res.ws
        /\ msg' = IF res.ok THEN "success: Sale deleted."
                  ELSE "error: Could not delete sale"
        /\ last' = IF Undoes("sale", sales, idx, res)
                   THEN [last EXCEPT !.op = "delSale"]
                   ELSE [NoLast EXCEPT !.op = "delete"]
        /\ UNCHANGED <<inv, purchases, sess, log, ar, fd>>

-----------------------------------------------------------------------------
(* Record Purchase *)

PurchaseDict(item, qty, buy) ==
    << <<"Date", Str(Today)>>, <<"Item Name", Str(item)>>,
       <<"Units Bought", Num(qty)>>, <<"Buying Price", Num(buy)>> >>

\* (not inv_df.empty) and ("Item Name" in inv_df.columns)
\*   and (item in inv_df["Item Name"].values)
Existing(df, item) ==
    /\ df.rows # <<>>
    /\ HasCol(df, "Item Name")
    /\ RowOf(df, "Item Name", Str(item)) # 0

\* the Stock an existing item's purchase is added to: 0 without a Stock column
PurchaseStock(cur, qty) == cur + qty

\* the inventory row of a new item, by position
NewItemRow(item, qty, buy) == <<Str(item), Num(buy), Num(SellOf(buy)), Num(qty)>>

\* the row of the except branch ("append minimal")
FallbackRow(item, qty, buy) == <<Str(item), Num(buy), Num(qty)>>

\* whether the handler gets as far as calling update_cell on the Stock cell
PurchaseUpdates(df, item) ==
    /\ Existing(df, item)
    /\ HasCol(df, "Stock")
    /\ df.rows[RowOf(df, "Item Name", Str(item))][ColLoc(df, "Stock")].k = "num"

\* the store calls of a Record Purchase click that may raise, in call order;
\* "inventory_append_twice": the append of the new row and its fallback
PurchaseFaults ==
    {"none", "append_row", "update_cell", "inventory_append", "inventory_append_twice"}

\* the Inventory sheet after the handler's update of an existing item
PurchaseInventory(ws, df, item, qty, failUpdate) ==
    LET r == RowOf(df, "Item Name", Str(item))
        cur == df.rows[r][ColLoc(df, "Stock")]
    IN  IF ~HasCol(df, "Stock") THEN ws
        ELSE IF cur.k # "num" \/ failUpdate THEN ws
        ELSE update_cell(ws, r + 1, ColLoc(df, "Stock"), Num(PurchaseStock(cur.n, qty)))

\* one click on "Record Purchase"
RecordPurchase(item, qty, buy, fault) ==
    \E df \in {get_df(inv)} :
    /\ Len(sales.rows) + Len(purchases.rows) < MaxTx
    /\ fault = "update_cell" => PurchaseUpdates(df, item)
    /\ fault \in {"inventory_append", "inventory_append_twice"} => ~Existing(df, item)
    /\ PurchaseUpdates(df, item) =>
            df.rows[RowOf(df, "Item Name", Str(item))][ColLoc(df, "Stock")].n + qty <= MaxStock
    /\ ~Existing(df, item) => Len(inv.rows) < MaxInvRows
    /\ IF item = ""
       THEN /\ fault = "none"
            /\ msg' = "error: Enter an item name."
            /\ last' = NoLast
            /\ UNCHANGED <<inv, purchases>>
       ELSE IF fault = "append_row"
       THEN /\ msg' = "error: Failed to append row to sheet."
            /\ last' = NoLast
            /\ UNCHANGED <<inv, purchases>>
       ELSE /\ purchases' = append_row_dynamic(purchases, PurchaseDict(item, qty, buy))
            /\ last' = [op |-> "purchase", item |-> Str(item), qty |-> qty,
                        pre |-> StockNow(Str(item)),
                        wrote |-> fault = "none" /\
                                  (Existing(df, item) => PurchaseUpdates(df, item))]
            /\ IF Existing(df, item)
               THEN /\ inv' = PurchaseInventory(inv, df, item, qty, fault = "update_cell")
                    /\ msg' = "success: Purchase recorded and inventory updated."
               ELSE IF fault = "none"
               THEN /\ inv' = append_row(inv, NewItemRow(item, qty, buy))
                    /\ msg' = "success: Purchase recorded and inventory updated."
               ELSE IF fault = "inventory_append"
               THEN /\ inv' = append_row(inv, FallbackRow(item, qty, buy))
                    /\ msg' = "success: Purchase recorded and inventory updated."
               ELSE /\ inv' = inv
                    /\ msg' = "exception: uncaught error of append_row"
    /\ UNCHANGED <<sales, sess, log, ar, fd>>

PurchaseMatch(df, idx) ==
    << <<"Date", RowGet(df, idx, "Date")>>,
       <<"Item Name", RowGet(df, idx, "Item Name")>>,
       <<"Units Bought", RowGet(df, idx, "Units Bought")>> >>

\* one click on "Delete Selected Purchase" with the idx-th purchase selected
DeletePurchase(idx, apiFails) ==
    \E df \in {get_df(purchases)} :
    /\ df.rows # <<>>
    /\ idx \in 1..Len(df.rows)
    /\ \E res \in {find_and_delete_row(purchases, PurchaseMatch(df, idx), apiFails)} :
        /\ purchases' = res.ws
        /\ msg' = IF res.ok THEN "success: Purchase deleted."
                  ELSE "error: Could not delete purchase"
        /\ last' = IF Undoes("purchase", purchases, idx, res)
                   THEN [last EXCEPT !.op = "delPurchase"]
                   ELSE [NoLast EXCEPT !.op = "delete"]
        /\ UNCHANGED <<inv, sales, sess, log, ar, fd>>

-----------------------------------------------------------------------------
(* The single-session specification: one click at a time, each script run
   finished before the next click is taken *)

\* the header rows the sheets are created with
InvLayouts ==
    { <<"item name ", "Buy Price", "Sell Price", " STOCK">>,
      <<"Item", "Buy Price", "Sell Price", "Stock">> }
SalesHeader == <<"Date", "Item Name", "Units Sold", "Selling Price", "Total">>
PurchasesHeader == <<"date ", "Units Bought", "Item Name", "Buying Price">>

NoSheet == [hdr |-> <<>>, rows |-> <<>>]
NoRun == [ws |-> NoSheet, fields |-> <<>>, done |-> FALSE]
NoFind == [ws |-> NoSheet, match |-> <<>>, apiFails |-> FALSE,
           out |-> [ok |-> FALSE, err |-> "", ws |-> NoSheet], done |-> FALSE]

Init ==
    /\ inv \in {[hdr |-> h, rows |-> <<>>] : h \in InvLayouts}
    /\ sales = [hdr |-> SalesHeader, rows |-> <<>>]
    /\ purchases = [hdr |-> PurchasesHeader, rows |-> <<>>]
    /\ msg = ""
    /\ last = NoLast
    /\ sess = <<>>
    /\ log = <<>>
    /\ ar = NoRun
    /\ fd = NoFind

\* the items the Record Sale page offers: the item column of the frame
Offered == {inv.rows[r][1] : r \in 1..Len(inv.rows)}

SaleClick ==
    \E item \in Offered, qty \in Qtys, price \in SellPrices, fault \in SaleFaults :
        RecordSale(item, qty, price, fault)

PurchaseClick ==
    \E item \in Items \cup {""}, qty \in Qtys, buy \in BuyPrices, fault \in PurchaseFaults :
        RecordPurchase(item, qty, buy, fault)

DeleteSaleClick ==
    \E idx \in 1..MaxTx, apiFails \in BOOLEAN : DeleteSale(idx, apiFails)

DeletePurchaseClick ==
    \E idx \in 1..MaxTx, apiFails \in BOOLEAN : DeletePurchase(idx, apiFails)

Next == SaleClick \/ PurchaseClick \/ DeleteSaleClick \/ DeletePurchaseClick

Spec == Init /\ [][Next]_vars

\* the same with the two record actions alone
NextRecord == SaleClick \/ PurchaseClick

SpecRecord == Init /\ [][NextRecord]_vars

-----------------------------------------------------------------------------
(* append_row_dynamic on drawn headers and fields *)

SeqsUpTo(S, n) == UNION {[1..k -> S] : k \in 0..n}

RowHeaders == {"Date", " Date", "Item Name", "ITEM NAME", "Total"}
RowKeys == {"Date", "date ", "Item Name", "Units Sold"}
RowVals == {Str("x"), Num(7)}

\* dictionaries: no key twice
RowDicts ==
    {d \in SeqsUpTo(RowKeys \X RowVals, MaxFields) :
        \A i, j \in 1..Len(d) : i # j => d[i][1] # d[j][1]}

InitRow ==
    /\ ar \in {[ws |-> [hdr |-> h, rows |-> <<>>], fields |-> d, done |-> FALSE] :
                h \in SeqsUpTo(RowHeaders, MaxHdr), d \in RowDicts}
    /\ inv = NoSheet /\ sales = NoSheet /\ purchases = NoSheet
    /\ msg = "" /\ last = NoLast /\ sess = <<>> /\ log = <<>> /\ fd = NoFind

\* one call of append_row_dynamic; appendFails: ws.append_row raises
AppendRowDynamic(appendFails) ==
    /\ ~ar.done
    /\ IF appendFails
       THEN /\ ar' = [ar EXCEPT !.done = TRUE]
            /\ msg' = "error: Failed to append row to sheet."
       ELSE /\ ar' = [ar EXCEPT !.ws = append_row_dynamic(ar.ws, ar.fields), !.done = TRUE]
            /\ msg' = ""
    /\ UNCHANGED <<inv, sales, purchases, last, sess, log, fd>>

NextRow == \E appendFails \in BOOLEAN : AppendRowDynamic(appendFails)

SpecRow == InitRow /\ [][NextRow]_vars

-----------------------------------------------------------------------------
(* find_and_delete_row on drawn sheets and match dictionaries *)

FindHeader == <<"Date", "item name ", "Units Sold">>
FindRowSet ==
    {<<d, i, u>> : d \in {Str(Today)}, i \in {Str("Pen"), Str(" Pen"), Blank},
                   u \in {Num(1), Num(2)}}
FindMatches ==
    {<< <<"Date", d>>, <<"Item Name", i>>, <<"Units Sold", u>> >> :
        d \in {Str(Today), Blank}, i \in {Str("Pen"), Str("Pen "), Blank},
        u \in {Num(1), Str("1"), Blank}}

InitFind ==
    /\ fd \in {[NoFind EXCEPT !.ws = [hdr |-> FindHeader, rows |-> r], !.match = m] :
                r \in SeqsUpTo(FindRowSet, MaxFindRows), m \in FindMatches}
    /\ inv = NoSheet /\ sales = NoSheet /\ purchases = NoSheet
    /\ msg = "" /\ last = NoLast /\ sess = <<>> /\ log = <<>> /\ ar = NoRun

\* one call of find_and_delete_row
FindAndDelete(apiFails) ==
    /\ ~fd.done
    /\ fd' = [fd EXCEPT !.out = find_and_delete_row(fd.ws, fd.match, apiFails),
                        !.apiFails = apiFails, !.done = TRUE]
    /\ UNCHANGED <<inv, sales, purchases, msg, last, sess, log, ar>>

NextFind == \E apiFails \in BOOLEAN : FindAndDelete(apiFails)

SpecFind == InitFind /\ [][NextFind]_vars

-----------------------------------------------------------------------------
(* Two sessions on the same spreadsheet.  A click starts a script run of its
   session; the run's store calls (the read of Inventory, the append of the
   transaction row, the write to Inventory) are steps of their own, and the
   calls of the two runs interleave freely. *)

Sessions == {1, 2}
RaceItem == "Pen"

Idle == [pc |-> "idle", op |-> "none", qty |-> 0,
         df |-> [cols |-> <<>>, rows |-> <<>>], stale |-> FALSE]

\* Inventory as one purchase of two Pen at 20.00 leaves it
RaceInventory ==
    append_row([hdr |-> <<"Item Name", "Buy Price", "Sell Price", "Stock">>, rows |-> <<>>],
               NewItemRow(RaceItem, 2, 2000))

InitRace ==
    /\ inv = RaceInventory
    /\ sales = [hdr |-> SalesHeader, rows |-> <<>>]
    /\ purchases = append_row_dynamic([hdr |-> PurchasesHeader, rows |-> <<>>],
                                      PurchaseDict(RaceItem, 2, 2000))
    /\ msg = "" /\ last = NoLast
    /\ sess = [s \in Sessions |-> Idle]
    /\ log = <<>>
    /\ ar = NoRun /\ fd = NoFind

\* a frame of Inventory read once, when the application starts
CachedInventory == get_df(RaceInventory)

\* inv_df = get_df(inventory_ws), at the top of the page's script
ReadInventory == get_df(inv)

\* the Stock a frame shows for the item (Absent: no row)
FrameStock(df, item) ==
    IF df.rows = <<>> \/ RowOf(df, ItemCol(df), item) = 0 THEN Absent
    ELSE df.rows[RowOf(df, ItemCol(df), item)][ColLoc(df, "Stock")]

Started == Len(log) + Cardinality({s \in Sessions : sess[s].pc # "idle"})

\* the click: the script run starts and reads Inventory
Load(s, op, qty) ==
    /\ sess[s].pc = "idle"
    /\ Started < MaxRaceOps
    /\ \E df \in {ReadInventory} :
        /\ op = "sale" => FrameStock(df, Str(RaceItem)) # Absent
        /\ sess' = [sess EXCEPT ![s] =
                        [pc |-> "loaded", op |-> op, qty |-> qty, df |-> df, stale |-> FALSE]]
    /\ UNCHANGED <<inv, sales, purchases, msg, last, log, ar, fd>>

\* append_row_dynamic of the transaction row
AppendTx(s) ==
    /\ sess[s].pc = "loaded"
    /\ IF sess[s].op = "sale"
       THEN /\ sales' = append_row_dynamic(sales,
                            SaleDict(Str(RaceItem), sess[s].qty, 3000))
            /\ UNCHANGED purchases
       ELSE /\ purchases' = append_row_dynamic(purchases,
                            PurchaseDict(RaceItem, sess[s].qty, 2000))
            /\ UNCHANGED sales
    /\ sess' = [sess EXCEPT ![s].pc = "appended"]
    /\ UNCHANGED <<inv, msg, last, log, ar, fd>>

\* the Inventory sheet a run leaves: computed from the frame it read
RaceInventoryAfter(s) ==
    IF sess[s].op = "sale"
    THEN SaleInventory(inv, sess[s].df, Str(RaceItem), sess[s].qty, FALSE)
    ELSE IF Existing(sess[s].df, RaceItem)
    THEN PurchaseInventory(inv, sess[s].df, RaceItem, sess[s].qty, FALSE)
    ELSE append_row(inv, NewItemRow(RaceItem, sess[s].qty, 2000))

\* the write to Inventory, which ends the run
WriteStock(s) ==
    /\ sess[s].pc = "appended"
    /\ \E new \in {RaceInventoryAfter(s)} :
        /\ inv' = new
        /\ log' = Append(log,
                    [s |-> s, op |-> sess[s].op, qty |-> sess[s].qty,
                     read |-> FrameStock(sess[s].df, Str(RaceItem)),
                     before |-> StockIn(inv, Str(RaceItem)),
                     after |-> StockIn(new, Str(RaceItem)),
                     stale |-> sess[s].stale])
    /\ sess' = [x \in Sessions |->
                    IF x = s THEN Idle
                    ELSE IF sess[x].pc = "idle" THEN sess[x]
                    ELSE [sess[x] EXCEPT !.stale = TRUE]]
    /\ msg' = IF sess[s].op = "sale"
              THEN "success: Sale recorded and inventory updated"
              ELSE "success: Purchase recorded and inventory updated."
    /\ UNCHANGED <<sales, purchases, last, ar, fd>>

NextRace ==
    \/ \E s \in Sessions, op \in {"sale", "purchase"}, qty \in Qtys : Load(s, op, qty)
    \/ \E s \in Sessions : AppendTx(s)
    \/ \E s \in Sessions : WriteStock(s)

SpecRace == InitRace /\ [][NextRace]_vars

-----------------------------------------------------------------------------
(* Properties of the single-session specification *)

IsSuccess(m) ==
    m \in {"success: Sale recorded and inventory updated",
           "success: Purchase recorded and inventory updated.",
           "success: Sale deleted.", "success: Purchase deleted."}

InvItemCol == Col(inv, {"Item Name", "Item"})
InvStockCol == Col(inv, {"Stock"})

\* the item has a row in the Inventory sheet
InInventory(item) == \E r \in 1..Len(inv.rows) : inv.rows[r][InvItemCol] = item

\* the quantities recorded for `item` in a ledger sheet, added up
RECURSIVE SumUnits(_, _, _, _, _)
SumUnits(ws, item, ic, qc, n) ==
    IF n = 0 THEN 0
    ELSE SumUnits(ws, item, ic, qc, n - 1) +
         (IF ws.rows[n][ic] = item /\ ws.rows[n][qc].k = "num" THEN ws.rows[n][qc].n ELSE 0)

UnitsBought(item) ==
    SumUnits(purchases, item, Col(purchases, {"Item Name", "Item"}),
             Col(purchases, {"Units Bought", "Quantity"}), Len(purchases.rows))

UnitsSold(item) ==
    SumUnits(sales, item, Col(sales, {"Item Name", "Item"}),
             Col(sales, {"Units Sold", "Quantity"}), Len(sales.rows))

\* C1: a transaction that is recorded and then deleted leaves the item's
\* Stock at the value it had before the transaction was recorded.
C1_DeleteRestoresStock ==
    (last.op \in {"delSale", "delPurchase"} /\ last.pre.k = "num")
        => StockNow(last.item) = last.pre

\* C2: no Stock is negative after any sequence of record and delete actions,
\* and a sale of more units than are in stock leaves the Stock it writes at 0.
C2_StockNeverNegative ==
    /\ \A r \in 1..Len(inv.rows) :
            inv.rows[r][InvStockCol].k = "num" => inv.rows[r][InvStockCol].n >= 0
    /\ (last.op = "sale" /\ last.wrote /\ last.qty > last.pre.n)
            => StockNow(last.item) = Num(0)

\* C2's case: a sale of more units than the positive Stock has been written.
C2_OversaleWritten ==
    /\ last.op = "sale" /\ last.wrote
    /\ last.pre.k = "num" /\ last.pre.n > 0 /\ last.qty > last.pre.n
    /\ StockNow(last.item) = Num(0)

\* C3: after record actions alone, from empty sheets, every Inventory row's
\* Stock is the units bought of its item minus the units sold of it.
C3_StockIsBoughtMinusSold ==
    \A r \in 1..Len(inv.rows) :
        inv.rows[r][InvStockCol] =
            Num(UnitsBought(inv.rows[r][InvItemCol]) - UnitsSold(inv.rows[r][InvItemCol]))

\* C4: no two Inventory rows carry the same item name, whichever of the
\* header layouts the Inventory sheet has.
C4_ItemNamesUnique ==
    \A r1, r2 \in 1..Len(inv.rows) :
        r1 # r2 => inv.rows[r1][InvItemCol] # inv.rows[r2][InvItemCol]

\* the Inventory row the purchase of a new item is to give, each value under
\* its own header
ExpectedNewRow(item, qty, buy) ==
    [i \in 1..Len(inv.hdr) |->
        LET h == Title(Strip(inv.hdr[i])) IN
        CASE h \in {"Item Name", "Item"} -> Str(item)
          [] h = "Buy Price" -> Num(buy)
          [] h = "Sell Price" -> Num(SellOf(buy))
          [] h = "Stock" -> Num(qty)
          [] OTHER -> Blank]

\* C5: a Record Purchase that reports success for an item not in Inventory
\* appends exactly one Inventory row: the item, its buy price, the sell price
\* round(buy * 1.2, 2) and the quantity as Stock, each in its own column.
C5_NewItemRow ==
    [][\A item \in Items, qty \in Qtys, buy \in BuyPrices, fault \in PurchaseFaults :
        (RecordPurchase(item, qty, buy, fault) /\ ~InInventory(Str(item)) /\ IsSuccess(msg'))
            => inv'.rows = Append(inv.rows, ExpectedNewRow(item, qty, buy))]_vars

\* C6: a Record Purchase, with no store failure, of an item that has an
\* Inventory row with a numeric Stock adds the quantity to that Stock and
\* changes nothing else of Inventory.
C6_ExistingItemStock ==
    [][\A item \in Items, qty \in Qtys, buy \in BuyPrices :
        (RecordPurchase(item, qty, buy, "none") /\ StockNow(Str(item)).k = "num")
            => inv' = update_cell(inv,
                        1 + FirstIdx(Len(inv.rows), LAMBDA r : inv.rows[r][InvItemCol] = Str(item)),
                        InvStockCol, Num(StockNow(Str(item)).n + qty))]_vars

\* C7: a Record Sale or Record Purchase in which a store call fails never
\* reports success.
C7_FailuresAreReported ==
    [][/\ \A item \in Offered, qty \in Qtys, price \in SellPrices,
             fault \in SaleFaults \ {"none"} :
             RecordSale(item, qty, price, fault) => ~IsSuccess(msg')
       /\ \A item \in Items, qty \in Qtys, buy \in BuyPrices,
             fault \in PurchaseFaults \ {"none"} :
             RecordPurchase(item, qty, buy, fault) => ~IsSuccess(msg')]_vars

-----------------------------------------------------------------------------
(* Properties of the helper functions and of the two-session specification *)

\* the criterion of `key` asks for a value, and row r of the sheet has it
Satisfies(ws, r, key, val) ==
    LET c == FirstIdx(Len(ws.hdr),
                LAMBDA i : Lower(Strip(ws.hdr[i])) = Lower(Strip(key)))
    IN  StrOf(val) = "" \/ (c # 0 /\ StrOf(ws.rows[r][c]) = StrOf(val))

\* C8: find_and_delete_row deletes exactly the first row in which every
\* non-empty criterion equals the row's value as trimmed strings, empty
\* criteria being ignored; without such a row it deletes nothing and reports
\* that none was found.
C8_FirstMatchDeleted ==
    (fd.done /\ ~fd.apiFails) =>
        LET first == FirstIdx(Len(fd.ws.rows),
                        LAMBDA r : \A j \in 1..Len(fd.match) :
                            Satisfies(fd.ws, r, fd.match[j][1], fd.match[j][2]))
        IN  IF first = 0
            THEN /\ ~fd.out.ok /\ fd.out.ws = fd.ws
                 /\ fd.out.err \in {"No matching row found.", "Sheet is empty."}
            ELSE /\ fd.out.ok
                 /\ fd.out.ws = [fd.ws EXCEPT !.rows = RemoveAt(@, first)]

\* the fields whose name equals the header, case and surrounding white space
\* apart
Named(fields, hdr) ==
    {j \in 1..Len(fields) : Lower(Strip(fields[j][1])) = Lower(Strip(hdr))}

\* C9: the row append_row_dynamic appends has one value per header; under
\* each header stands the value of a field of that name, and an empty value
\* when no field has that name.
C9_RowFollowsHeaders ==
    (ar.done /\ ar.ws.rows # <<>>) =>
        /\ Len(ar.ws.rows) = 1
        /\ Len(ar.ws.rows[1]) = Len(ar.ws.hdr)
        /\ \A i \in 1..Len(ar.ws.hdr) :
                IF Named(ar.fields, ar.ws.hdr[i]) = {}
                THEN ar.ws.rows[1][i] = Blank
                ELSE \E j \in Named(ar.fields, ar.ws.hdr[i]) :
                        ar.ws.rows[1][i] = ar.fields[j][2]

\* C9's case: a header without a field stands before a header with one, and
\* the row has the empty value under the first and the field under the second.
C9_UnsetBeforeSet ==
    /\ ar.done /\ ar.ws.rows # <<>>
    /\ \E i, k \in 1..Len(ar.ws.hdr) :
        /\ i < k
        /\ Named(ar.fields, ar.ws.hdr[i]) = {} /\ ar.ws.rows[1][i] = Blank
        /\ Named(ar.fields, ar.ws.hdr[k]) # {} /\ ar.ws.rows[1][k] # Blank

\* the Stock an action of `qty` units leaves when applied to Stock `cell`
Applied(op, cell, qty) ==
    IF op = "sale"
    THEN Num(IF cell.n - qty > 0 THEN cell.n - qty ELSE 0)
    ELSE Num(cell.n + qty)

\* C10: a run whose read of Inventory no other session's write has followed
\* applies its stock change to the Stock the previous action left.
C10_UnraceWriteIsSequential ==
    \A i \in 1..Len(log) :
        ~log[i].stale =>
            /\ log[i].read = log[i].before
            /\ log[i].after = Applied(log[i].op, log[i].before, log[i].qty)

\* C10's case: two sessions read the same Stock, both write, and the Stock
\* left is the second write's, which is not what the two changes give one
\* after the other.
C10_LostUpdate ==
    /\ \A s \in DOMAIN sess : sess[s].pc = "idle"
    /\ \E i \in 1..(Len(log) - 1) :
        /\ log[i].s # log[i + 1].s
        /\ log[i].read = log[i + 1].read
        /\ log[i + 1].after = Applied(log[i + 1].op, log[i + 1].read, log[i + 1].qty)
        /\ log[i + 1].after # Applied(log[i + 1].op, log[i].after, log[i + 1].qty)
        /\ StockIn(inv, Str(RaceItem)) = log[i + 1].after

=============================================================================
